---- MODULE Spec2Model ----
(***************************************************************************)
(* Model of train.py: the structural loss pipeline (inverse_trig_transform, *)
(* unpad_angle_vectors, cal_loss, mse_loss) and the epoch loop of train     *)
(* (early stopping and checkpointing).                                      *)
(*                                                                          *)
(* Tensors are nested sequences t[b][l][w].  Encoded values are drawn from  *)
(* {-1, 0, 1}, for which atan2 is exact in units of pi/4; decoded angles    *)
(* are therefore integers in -3..4 (eighth-turns).  Scalars that the code   *)
(* computes by a mean are kept as reduced fractions <<num, den>>.           *)
(* Every fallible operation returns a record whose field st is "ok" or      *)
(* "raise".                                                                 *)
(***************************************************************************)
EXTENDS Integers, Sequences, FiniteSets, TLC

VARIABLES
    pred, gold,        \* the two tensors handed to cal_loss / mse_loss
    pc,                \* "start", "cal_loss" or "mse_loss": which call has returned
    st,                \* "ok" or "raise": how the call ended
    d_pred, d_gold,    \* tensors after inverse_trig_transform   (train.py:49)
    u_pred, u_gold,    \* tensors after unpad_angle_vectors      (train.py:50, 66)
    losses,            \* per-example losses                     (train.py:52-57)
    loss,              \* the returned scalar                    (train.py:59, 67)
    opt,               \* the options train reads: epoch, step_when, save_model, save_mode
    tpc,               \* "idle", "loop", "break" or "done": position in train's loop
    epoch_i,           \* index of the next epoch to run
    valid_losses, epoch_last_improved, best_valid_loss_so_far,
    model_state,       \* number of train_epoch passes the model has been through
    files              \* checkpoint files on disk: file name -> checkpoint

lossVars == <<pred, gold, pc, st, d_pred, d_gold, u_pred, u_gold, losses, loss>>
trainVars == <<opt, tpc, epoch_i, valid_losses, epoch_last_improved,
               best_valid_loss_so_far, model_state, files>>
vars == <<lossVars, trainVars>>

-----------------------------------------------------------------------------
(* Bounds of the model *)

\* matched-shape inputs have at most MaxCells residue positions (batch * length)
MaxCells == 3
\* mismatched-shape inputs have batch size and length in 1..MaxDim
MaxDim == 2
\* train runs at most MaxEpochs epochs (opt.epoch)
MaxEpochs == 4
\* opt.step_when is None or in 0..MaxStepWhen
MaxStepWhen == 2

(* Program constants *)

\* t.view(t.shape[0], -1, 11, 2): 11 angles per residue
NumAngles == 11
\* t.view(t.shape[0], -1, 11, 2): a (cos, sin) pair per angle
PairWidth == 2
\* best_valid_loss_so_far = 10000
InitialBestLoss == 10000
\* epoch_last_improved = -1
InitialLastImproved == -1

EncWidth == NumAngles * PairWidth

-----------------------------------------------------------------------------
(* Arithmetic helpers *)

Min(a, b) == IF a <= b THEN a ELSE b

Max(a, b) == IF a >= b THEN a ELSE b

Abs(a) == IF a < 0 THEN -a ELSE a

RECURSIVE GCD(_, _)
GCD(a, b) == IF b = 0 THEN a ELSE GCD(b, a % b)

\* the exact value n / d (d > 0, n >= 0) as a reduced fraction
Frac(n, d) == LET g == GCD(n, d) IN <<n \div g, d \div g>>

RECURSIVE SumSeq(_)
SumSeq(s) == IF s = <<>> THEN 0 ELSE Head(s) + SumSeq(Tail(s))

\* torch.mean of a 1-D tensor
Mean(s) == Frac(SumSeq(s), Len(s))

-----------------------------------------------------------------------------
(* Tensor helpers: shapes, views, broadcasting *)

Shape(t) == <<Len(t), Len(t[1]), Len(t[1][1])>>

\* element i (1-based, row-major) of the matrix m, whose rows hold W values
FlatAt(m, W, i) == m[((i - 1) \div W) + 1][((i - 1) % W) + 1]

\* torch.atan2(sin, cos) in units of pi/4, exact for arguments in {-1, 0, 1};
\* atan2(0, 0) = 0
Atan2(s, c) ==
    CASE c > 0 /\ s = 0 -> 0
      [] c > 0 /\ s > 0 -> 1
      [] c = 0 /\ s > 0 -> 2
      [] c < 0 /\ s > 0 -> 3
      [] c < 0 /\ s = 0 -> 4
      [] c < 0 /\ s < 0 -> -3
      [] c = 0 /\ s < 0 -> -2
      [] c > 0 /\ s < 0 -> -1
      [] OTHER -> 0

\* two dimensions broadcast iff they are equal or one of them is 1
DimOk(a, b) == a = b \/ a = 1 \/ b = 1

Broadcastable(s1, s2) == \A k \in 1..3 : DimOk(s1[k], s2[k])

BroadcastShape(s1, s2) == [k \in 1..3 |-> Max(s1[k], s2[k])]

\* element (b, l, w) of the broadcast of t, whose shape is s: a dimension of
\* size 1 is repeated
BAt(t, s, b, l, w) ==
    t[IF s[1] = 1 THEN 1 ELSE b][IF s[2] = 1 THEN 1 ELSE l][IF s[3] = 1 THEN 1 ELSE w]

\* x * y with broadcasting; both of rank 3 and broadcastable
Mul(x, y) ==
    LET sx == Shape(x)
        sy == Shape(y)
        s == BroadcastShape(sx, sy)
    IN  [b \in 1..s[1] |-> [l \in 1..s[2] |-> [w \in 1..s[3] |->
            BAt(x, sx, b, l, w) * BAt(y, sy, b, l, w)]]]

-----------------------------------------------------------------------------
(* unpad_angle_vectors, train.py:23-31 *)

\* not_padded_mask = (gold != 0), cast to 0.0 / 1.0
NotPaddedMask(g) ==
    [b \in 1..Len(g) |-> [l \in 1..Len(g[b]) |-> [w \in 1..Len(g[b][l]) |->
        IF g[b][l][w] # 0 THEN 1 ELSE 0]]]

\* a variant that masks the reference only and returns the prediction as it came
unpad_pred_unmasked(p, g, device) ==
    IF ~Broadcastable(Shape(p), Shape(g))
    THEN [st |-> "raise", pred |-> <<>>, gold |-> <<>>]
    ELSE LET ones == [b \in 1..Len(g) |-> [l \in 1..Len(g[b]) |-> [w \in 1..Len(g[b][l]) |-> 1]]]
         IN  [st |-> "ok", pred |-> Mul(p, ones), gold |-> Mul(g, NotPaddedMask(g))]

\* a variant that derives the mask from the prediction instead of the reference
unpad_mask_from_pred(p, g, device) ==
    IF ~Broadcastable(Shape(p), Shape(g))
    THEN [st |-> "raise", pred |-> <<>>, gold |-> <<>>]
    ELSE [st |-> "ok", pred |-> Mul(p, NotPaddedMask(p)), gold |-> Mul(g, NotPaddedMask(p))]

\* a variant that multiplies the prediction by the reference itself, not by its mask
unpad_times_gold(p, g, device) ==
    IF ~Broadcastable(Shape(p), Shape(g))
    THEN [st |-> "raise", pred |-> <<>>, gold |-> <<>>]
    ELSE [st |-> "ok", pred |-> Mul(p, g), gold |-> Mul(g, NotPaddedMask(g))]

unpad_angle_vectors(p, g, device) ==
    LET not_padded_mask == NotPaddedMask(g)
    IN  IF ~Broadcastable(Shape(p), Shape(g))
        THEN [st |-> "raise", pred |-> <<>>, gold |-> <<>>]
        ELSE IF device = "cuda"
             THEN [st |-> "ok", pred |-> Mul(p, not_padded_mask),
                   gold |-> Mul(g, not_padded_mask)]
             ELSE [st |-> "ok", pred |-> Mul(p, not_padded_mask),
                   gold |-> Mul(g, not_padded_mask)]

-----------------------------------------------------------------------------
(* inverse_trig_transform, train.py:34-41 *)

\* t.view(t.shape[0], -1, 11, 2) needs the element count of one batch entry to be
\* a multiple of 22; the second dimension becomes that count / 22
ViewOk(t) == (Len(t[1]) * Len(t[1][1])) % EncWidth = 0

ViewLen(t) == (Len(t[1]) * Len(t[1][1])) \div EncWidth

inverse_trig_transform(t) ==
    IF ~ViewOk(t)
    THEN [st |-> "raise", val |-> <<>>]
    ELSE [st |-> "ok",
          val |-> [b \in 1..Len(t) |-> [r \in 1..ViewLen(t) |-> [k \in 1..NumAngles |->
                    LET base == EncWidth * (r - 1) + PairWidth * (k - 1)
                        t_cos == FlatAt(t[b], Len(t[1][1]), base + 1)
                        t_sin == FlatAt(t[b], Len(t[1][1]), base + 2)
                    IN  Atan2(t_sin, t_cos)]]]]

-----------------------------------------------------------------------------
(* transformer.Structure (angles2coords, drmsd) is imported by train.py:19 and *)
(* is not part of the sources at hand.  It is modelled from its description:   *)
(* a deterministic chain builder that places AtomsPerResidue atoms per residue *)
(* of its input, each from the atoms before it, and a scorer over the two      *)
(* pairwise-distance matrices that is 0 on equal inputs.  Coordinates are kept *)
(* on one axis and the score is the summed squared deviation of the distance   *)
(* matrices, so that all values stay integers.                                 *)

AtomsPerResidue == 3

\* the displacement of atom slot s of residue r from the atom before it
Step(item, r, s) ==
    1 + SumSeq([k \in 1..Len(item[r]) |->
                  IF k % AtomsPerResidue = s % AtomsPerResidue THEN item[r][k] ELSE 0])

\* the chain extended atom by atom: coords holds the atoms placed so far, last is
\* the position of the latest one
RECURSIVE Extend(_, _, _)
Extend(item, coords, last) ==
    LET j == Len(coords) + 1
    IN  IF j > Len(item) * AtomsPerResidue THEN coords
        ELSE LET x == last + Step(item, ((j - 1) \div AtomsPerResidue) + 1,
                                  ((j - 1) % AtomsPerResidue) + 1)
             IN  Extend(item, Append(coords, x), x)

angles2coords(item, device) == Extend(item, <<>>, 0)

drmsd(a, b) ==
    IF Len(a) # Len(b)
    THEN [st |-> "raise", val |-> 0]
    ELSE [st |-> "ok",
          val |-> SumSeq([i \in 1..Len(a) |-> SumSeq([j \in 1..Len(a) |->
                    IF i < j
                    THEN LET dev == Abs(a[i] - a[j]) - Abs(b[i] - b[j]) IN dev * dev
                    ELSE 0])])]

-----------------------------------------------------------------------------
(* cal_loss, train.py:44-59 *)

\* what a call leaves behind when it raises at some point
Raised(dp, dg, up, ug) ==
    [st |-> "raise", d_pred |-> dp, d_gold |-> dg, u_pred |-> up, u_gold |-> ug,
     losses |-> <<>>, loss |-> <<>>]

\* for pred_item, gold_item in zip(pred, gold): one drmsd per pair, as many pairs
\* as the shorter of the two
item_losses(up, ug, device) ==
    [i \in 1..Min(Len(up), Len(ug)) |->
        LET true_coords == angles2coords(ug[i], device)
            pred_coords == angles2coords(up[i], device)
        IN  drmsd(pred_coords, true_coords)]

\* a variant that sums the per-example losses instead of averaging them
reduce_by_sum(ls) == Frac(SumSeq(ls), 1)

\* torch.mean(torch.stack(losses))
reduce_losses(ls) == Mean(ls)

cal_loss(p, g, dev) ==
    LET device == "cpu"
        dp == inverse_trig_transform(p)
        dg == inverse_trig_transform(g)
    IN  IF dp.st = "raise" \/ dg.st = "raise"
        THEN Raised(<<>>, <<>>, <<>>, <<>>)
        ELSE LET u == unpad_angle_vectors(dp.val, dg.val, device)
             IN  IF u.st = "raise"
                 THEN Raised(dp.val, dg.val, <<>>, <<>>)
                 ELSE LET ls == item_losses(u.pred, u.gold, device)
                      IN  IF \E i \in 1..Len(ls) : ls[i].st = "raise"
                          THEN Raised(dp.val, dg.val, u.pred, u.gold)
                          ELSE LET vals == [i \in 1..Len(ls) |-> ls[i].val]
                               IN  [st |-> "ok", d_pred |-> dp.val, d_gold |-> dg.val,
                                    u_pred |-> u.pred, u_gold |-> u.gold,
                                    losses |-> vals, loss |-> reduce_losses(vals)]

-----------------------------------------------------------------------------
(* mse_loss, train.py:62-67 *)

\* F.mse_loss(input, target): the mean of the squared differences over the
\* broadcast of the two shapes
MseOf(x, y) ==
    LET sx == Shape(x)
        sy == Shape(y)
        s == BroadcastShape(sx, sy)
        sq(b, l, w) == LET dev == BAt(x, sx, b, l, w) - BAt(y, sy, b, l, w) IN dev * dev
        total == SumSeq([b \in 1..s[1] |-> SumSeq([l \in 1..s[2] |->
                    SumSeq([w \in 1..s[3] |-> sq(b, l, w)])])])
    IN  Frac(total, s[1] * s[2] * s[3])

\* a variant that decodes both tensors before masking, as cal_loss does
mse_loss_decoded(p, g) ==
    LET dp == inverse_trig_transform(p)
        dg == inverse_trig_transform(g)
        u == unpad_angle_vectors(dp.val, dg.val, "cpu")
    IN  IF dp.st = "raise" \/ dg.st = "raise" \/ u.st = "raise"
        THEN Raised(<<>>, <<>>, <<>>, <<>>)
        ELSE [st |-> "ok", d_pred |-> <<>>, d_gold |-> <<>>,
              u_pred |-> u.pred, u_gold |-> u.gold,
              losses |-> <<>>, loss |-> MseOf(u.pred, u.gold)]

mse_loss(p, g) ==
    LET device == "cpu"
        u == unpad_angle_vectors(p, g, device)
    IN  IF u.st = "raise"
        THEN Raised(<<>>, <<>>, <<>>, <<>>)
        ELSE [st |-> "ok", d_pred |-> <<>>, d_gold |-> <<>>,
              u_pred |-> u.pred, u_gold |-> u.gold,
              losses |-> <<>>, loss |-> MseOf(u.pred, u.gold)]

-----------------------------------------------------------------------------
(* Inputs of the loss functions *)

\* a 22-value residue encoding: the (cos, sin) pair p for the first angle and
\* the pair q for the ten others
Row(p, q) == [w \in 1..EncWidth |-> IF w <= PairWidth THEN p[w] ELSE q[((w - 1) % PairWidth) + 1]]

\* the all-zero row is the padding of the data pipeline; the second row encodes the
\* angle 0 as (cos, sin) = (1, 0) for its first angle
ZeroRow == Row(<<0, 0>>, <<0, 0>>)

GoldRows == {ZeroRow, Row(<<1, 0>>, <<0, 1>>), Row(<<-1, -1>>, <<0, 1>>)}

PredRows == {Row(<<0, 1>>, <<1, 1>>), Row(<<-1, 0>>, <<1, -1>>)}

TensorsOf(B, L, rows) == [1..B -> [1..L -> rows]]

Fill(B, L, W, v) == [b \in 1..B |-> [l \in 1..L |-> [w \in 1..W |-> v]]]

Widths == {NumAngles, EncWidth, 2 * EncWidth}

Dims == (1..MaxDim) \X (1..MaxDim) \X Widths

\* (batch, 22 * length) tensors of equal shape, as the model and the data pipeline
\* produce them
InitMatched ==
    \E B \in 1..MaxCells, L \in 1..MaxCells :
        /\ B * L <= MaxCells
        /\ pred \in TensorsOf(B, L, PredRows)
        /\ gold \in TensorsOf(B, L, GoldRows)

\* tensors whose shapes differ in some dimension
InitMismatched ==
    \E sp \in Dims, sg \in Dims, v \in {0, 1} :
        /\ sp # sg
        /\ pred = Fill(sp[1], sp[2], sp[3], 1)
        /\ gold = Fill(sg[1], sg[2], sg[3], v)

LossIdle ==
    /\ pc = "start" /\ st = "ok"
    /\ d_pred = <<>> /\ d_gold = <<>> /\ u_pred = <<>> /\ u_gold = <<>>
    /\ losses = <<>> /\ loss = <<>>

TrainIdle ==
    /\ opt = [epoch |-> 0, step_when |-> <<>>, save_model |-> "", save_mode |-> "best"]
    /\ tpc = "idle" /\ epoch_i = 0 /\ valid_losses = <<>>
    /\ epoch_last_improved = InitialLastImproved
    /\ best_valid_loss_so_far = InitialBestLoss
    /\ model_state = 0 /\ files = {}

Init == (InitMatched \/ InitMismatched) /\ LossIdle /\ TrainIdle

Returned(name, r) ==
    /\ pc' = name /\ st' = r.st
    /\ d_pred' = r.d_pred /\ d_gold' = r.d_gold
    /\ u_pred' = r.u_pred /\ u_gold' = r.u_gold
    /\ losses' = r.losses /\ loss' = r.loss
    /\ UNCHANGED <<pred, gold, trainVars>>

\* loss = cal_loss(pred, gold, device), train.py:91 and 131
CalLoss ==
    /\ pc = "start"
    /\ \E device \in {"cpu", "cuda"} : Returned("cal_loss", cal_loss(pred, gold, device))

\* mse_loss(pred, gold)
MseLoss ==
    /\ pc = "start"
    /\ Returned("mse_loss", mse_loss(pred, gold))

Next == CalLoss \/ MseLoss

Spec == Init /\ [][Next]_vars

-----------------------------------------------------------------------------
(* train, train.py:139-211.  train_epoch and eval_epoch are taken by their     *)
(* results: one more pass over the model, and a validation loss.  Log files    *)
(* and printing are left out.                                                  *)

\* validation losses eval_epoch may return: below, at and above the initial value
\* of best_valid_loss_so_far
LossValues == {1, 2, InitialBestLoss, InitialBestLoss + 1}

\* opt.step_when is <<>> for None (the argparse default) and <<n>> for -step_when n
StepWhenValues == {<<>>} \cup {<<n>> : n \in 0..MaxStepWhen}

\* Python truth value of opt.step_when: None and 0 are false
Truthy(step_when) == step_when # <<>> /\ step_when[1] # 0

RECURSIVE MinOf(_)
MinOf(s) == IF Len(s) = 1 THEN s[1] ELSE Min(Head(s), MinOf(Tail(s)))

\* '{vloss:3.3f}'.format(vloss=valid_loss): the loss rounded to thousandths
FormatLoss(valid_loss) == valid_loss * 1000

\* model_name of save_mode 'all' and of save_mode 'best'
NameAll(o, valid_loss) == [stem |-> o.save_model, vloss |-> <<FormatLoss(valid_loss)>>]

NameBest(o) == [stem |-> o.save_model, vloss |-> <<>>]

\* torch.save(checkpoint, model_name): the file is created or overwritten
Save(fs, name, checkpoint) ==
    {f \in fs : f.name # name} \cup {[name |-> name, ckpt |-> checkpoint]}

\* a variant with a strict comparison
IsBestStrict(valid_loss, vls) == valid_loss < MinOf(vls)

\* if valid_loss <= min(valid_losses)
IsBest(valid_loss, vls) == valid_loss <= MinOf(vls)

\* train.py:180: opt.step_when and valid_loss < best_valid_loss_so_far
Improved(o, valid_loss, best) == Truthy(o.step_when) /\ valid_loss < best

\* train.py:183: opt.step_when and epoch_i - epoch_last_improved > opt.step_when
StopEarly(o, i, last) == Truthy(o.step_when) /\ i - last > o.step_when[1]

\* train.py:189-204: the checkpoint of this epoch and where it is written
SaveCheckpoint(o, fs, i, valid_loss, vls, state) ==
    LET checkpoint == [model |-> state, epoch |-> i, vloss |-> valid_loss]
    IN  IF o.save_model = "" THEN fs
        ELSE IF o.save_mode = "all" THEN Save(fs, NameAll(o, valid_loss), checkpoint)
        ELSE IF o.save_mode = "best" /\ IsBest(valid_loss, vls)
             THEN Save(fs, NameBest(o), checkpoint)
             ELSE fs

InitTrain ==
    /\ opt \in [epoch : 0..MaxEpochs, step_when : StepWhenValues,
                save_model : {"", "model"}, save_mode : {"all", "best"}]
    /\ tpc = "loop" /\ epoch_i = 0 /\ valid_losses = <<>>
    /\ epoch_last_improved = InitialLastImproved
    /\ best_valid_loss_so_far = InitialBestLoss
    /\ model_state = 0 /\ files = {}

LossUnused ==
    /\ pred = <<>> /\ gold = <<>>
    /\ LossIdle

InitT == InitTrain /\ LossUnused

\* one iteration of `for epoch_i in range(opt.epoch)`, train.py:160-204, with
\* valid_loss the result of eval_epoch
Epoch(valid_loss) ==
    /\ tpc = "loop" /\ epoch_i < opt.epoch
    /\ model_state' = model_state + 1
    /\ valid_losses' = Append(valid_losses, valid_loss)
    /\ IF Improved(opt, valid_loss, best_valid_loss_so_far)
       THEN /\ best_valid_loss_so_far' = valid_loss
            /\ epoch_last_improved' = epoch_i
       ELSE UNCHANGED <<best_valid_loss_so_far, epoch_last_improved>>
    /\ IF /\ ~Improved(opt, valid_loss, best_valid_loss_so_far)
          /\ StopEarly(opt, epoch_i, epoch_last_improved)
       THEN /\ tpc' = "break"
            /\ UNCHANGED <<epoch_i, files>>
       ELSE /\ files' = SaveCheckpoint(opt, files, epoch_i, valid_loss,
                                       valid_losses', model_state')
            /\ epoch_i' = epoch_i + 1
            /\ tpc' = "loop"
    /\ UNCHANGED <<opt, lossVars>>

EpochStep == \E valid_loss \in LossValues : Epoch(valid_loss)

\* range(opt.epoch) is exhausted: train returns
Return ==
    /\ tpc = "loop" /\ epoch_i = opt.epoch
    /\ tpc' = "done"
    /\ UNCHANGED <<opt, epoch_i, valid_losses, epoch_last_improved,
                   best_valid_loss_so_far, model_state, files, lossVars>>

NextT == EpochStep \/ Return

SpecT == InitT /\ [][NextT]_vars

-----------------------------------------------------------------------------
(* Properties of the loss pipeline, checked under Spec *)

\* the inputs are a contract-conforming pair: equal shapes, 22 values per residue
SameShape22 == Shape(pred) = Shape(gold) /\ Shape(pred)[3] = EncWidth

BatchSize == Len(gold)

SeqLen == Len(gold[1])

\* the reference's encoding at position (b, l) is not the all-zero padding pattern
Encoded(b, l) == \E w \in 1..EncWidth : gold[b][l][w] # 0

AllZero(row) == \A k \in 1..Len(row) : row[k] = 0

\* C1: in cal_loss the validity mask is per residue position, true iff the
\* reference's 22-value encoding there is not all zeros: at such a position all 11
\* decoded angles are kept in the masked prediction and the masked reference, at an
\* all-zero position all 11 are zeroed.
C1_MaskIsPerResidue ==
    (pc = "cal_loss" /\ SameShape22) =>
        \A b \in 1..BatchSize, l \in 1..SeqLen :
            IF Encoded(b, l)
            THEN u_pred[b][l] = d_pred[b][l] /\ u_gold[b][l] = d_gold[b][l]
            ELSE AllZero(u_pred[b][l]) /\ AllZero(u_gold[b][l])

\* predictions of the shape of pred that agree with it wherever the reference is
\* not padding
AgreeingPreds ==
    {p2 \in TensorsOf(BatchSize, SeqLen, PredRows) :
        \A b \in 1..BatchSize, l \in 1..SeqLen : Encoded(b, l) => p2[b][l] = pred[b][l]}

\* C2: prediction values at padded positions never contribute: two predictions
\* that agree at every position where the reference encoding is not all-zero give
\* the same masked prediction sequences to angles2coords and the same loss.
C2_PaddedPredIgnored ==
    (pc = "cal_loss" /\ SameShape22) =>
        \A p2 \in AgreeingPreds :
            LET r == cal_loss(p2, gold, "cpu")
            IN  /\ r.st = st
                /\ r.u_pred = u_pred
                /\ \A b \in 1..BatchSize :
                       angles2coords(r.u_pred[b], "cpu") = angles2coords(u_pred[b], "cpu")
                /\ r.loss = loss

\* a padded position whose prediction decodes to non-zero angles was masked, and
\* another prediction differs from pred exactly at padded positions
C2_Witness ==
    /\ pc = "cal_loss" /\ SameShape22 /\ st = "ok"
    /\ \E b \in 1..BatchSize, l \in 1..SeqLen :
           ~Encoded(b, l) /\ ~AllZero(d_pred[b][l]) /\ AllZero(u_pred[b][l])
    /\ \E p2 \in AgreeingPreds : p2 # pred

\* the reference holds k encoded residues followed by zero padding, in every example
PaddedFrom(k) ==
    \A b \in 1..BatchSize, l \in 1..SeqLen : Encoded(b, l) <=> l <= k

Truncate(t, k) == [b \in 1..Len(t) |-> SubSeq(t[b], 1, k)]

\* C3: padding does not change the structural loss: a reference of k residues
\* zero-padded to length L > k, with any prediction, gives the loss of the pair
\* truncated to length k, the padded positions adding no residues to the sequences
\* given to angles2coords and drmsd.
C3_PaddingAddsNothing ==
    (pc = "cal_loss" /\ SameShape22) =>
        \A k \in 1..(SeqLen - 1) :
            PaddedFrom(k) =>
                LET r == cal_loss(Truncate(pred, k), Truncate(gold, k), "cpu")
                IN  /\ r.u_pred = u_pred
                    /\ r.u_gold = u_gold
                    /\ r.loss = loss

\* the element-wise mask on the raw encodings: a value is kept iff the reference
\* value at the same place is not zero
RawMasked(t) ==
    [b \in 1..BatchSize |-> [l \in 1..SeqLen |-> [w \in 1..EncWidth |->
        IF gold[b][l][w] # 0 THEN t[b][l][w] ELSE 0]]]

Swap(t, i, j) == [b \in 1..Len(t) |-> IF b = i THEN t[j] ELSE IF b = j THEN t[i] ELSE t[b]]

\* C5: cal_loss returns the arithmetic mean over the batch: one loss per example,
\* example i's loss being that of prediction i against reference i, summed and
\* divided by the batch size (0.1, 0.2, 0.3, 0.4 give 0.25, here in tenths); the
\* result does not depend on the order of the examples.
C5_BatchMean ==
    (pc = "cal_loss" /\ SameShape22) =>
        /\ st = "ok"
        /\ Len(losses) = BatchSize
        /\ \A i \in 1..BatchSize :
               cal_loss(<<pred[i]>>, <<gold[i]>>, "cpu").losses = <<losses[i]>>
        /\ loss[1] * BatchSize = SumSeq(losses) * loss[2]
        /\ loss = Frac(loss[1], loss[2])
        /\ reduce_losses(<<1, 2, 3, 4>>) = <<5, 2>>
        /\ \A i \in 1..BatchSize, j \in 1..BatchSize :
               i < j => cal_loss(Swap(pred, i, j), Swap(gold, i, j), "cpu").loss = loss

\* a batch of several examples with different losses whose mean is not a whole number
C5_Witness ==
    /\ pc = "cal_loss" /\ SameShape22 /\ st = "ok"
    /\ BatchSize >= 2
    /\ \E i \in 1..BatchSize, j \in 1..BatchSize : losses[i] # losses[j]
    /\ loss[2] > 1

\* C6: a shape mismatch between prediction and reference is always fatal: cal_loss
\* and mse_loss raise and return no loss when the shapes differ in any dimension.
C6_ShapeMismatchRaises ==
    (pc \in {"cal_loss", "mse_loss"} /\ Shape(pred) # Shape(gold)) =>
        (st = "raise" /\ loss = <<>>)

\* C7: an all-padding example has loss 0: when the reference of an example is all
\* zeros, cal_loss gives angles2coords identical masked sequences for prediction
\* and reference, whatever the prediction, the example's loss is 0 and the call
\* does not fail.
C7_AllPaddingLossZero ==
    (pc = "cal_loss" /\ SameShape22) =>
        /\ st = "ok"
        /\ \A b \in 1..BatchSize :
               (\A l \in 1..SeqLen : ~Encoded(b, l)) =>
                   /\ u_pred[b] = u_gold[b]
                   /\ angles2coords(u_pred[b], "cpu") = angles2coords(u_gold[b], "cpu")
                   /\ losses[b] = 0

\* an all-padding example whose prediction decodes to non-zero angles
C7_Witness ==
    /\ pc = "cal_loss" /\ SameShape22 /\ st = "ok"
    /\ \E b \in 1..BatchSize :
           /\ \A l \in 1..SeqLen : ~Encoded(b, l)
           /\ \A l \in 1..SeqLen : ~AllZero(d_pred[b][l])
           /\ losses[b] = 0

\* C8: masking is idempotent: unpad_angle_vectors applied to its own output on
\* same-shape tensors returns that output again, the mask recomputed from the
\* masked reference being the original mask.
C8_MaskingIdempotent ==
    /\ (pc = "cal_loss" /\ st = "ok" /\ Shape(d_pred) = Shape(d_gold)) =>
           LET r == unpad_angle_vectors(u_pred, u_gold, "cpu")
           IN  /\ r.st = "ok" /\ r.pred = u_pred /\ r.gold = u_gold
               /\ NotPaddedMask(u_gold) = NotPaddedMask(d_gold)
    /\ (pc = "mse_loss" /\ st = "ok" /\ Shape(pred) = Shape(gold)) =>
           LET r == unpad_angle_vectors(u_pred, u_gold, "cpu")
           IN  /\ r.st = "ok" /\ r.pred = u_pred /\ r.gold = u_gold
               /\ NotPaddedMask(u_gold) = NotPaddedMask(gold)

\* the first masking changed the prediction and kept part of it
C8_Witness ==
    /\ pc = "cal_loss" /\ SameShape22 /\ st = "ok"
    /\ u_pred # d_pred
    /\ \E b \in 1..BatchSize, l \in 1..SeqLen : ~AllZero(u_pred[b][l])

-----------------------------------------------------------------------------
(* Properties of train, checked under SpecT *)

\* position (1-based) of the latest epoch whose validation loss is the minimum of vls
LatestMin(vls) ==
    CHOOSE i \in 1..Len(vls) :
        /\ vls[i] = MinOf(vls)
        /\ \A j \in (i + 1)..Len(vls) : vls[j] # MinOf(vls)

\* the checkpoint file of save_mode 'best' holds the model state and the epoch
\* index of the latest epoch with the minimum of vls
HoldsBestOf(vls) ==
    \E f \in files :
        /\ f.name = NameBest(opt)
        /\ f.ckpt.epoch = LatestMin(vls) - 1
        /\ f.ckpt.model = LatestMin(vls)
        /\ f.ckpt.vloss = MinOf(vls)

BestMode == opt.save_mode = "best" /\ opt.save_model # ""

Front(vls) == SubSeq(vls, 1, Len(vls) - 1)

\* C9 as stated: in save_mode 'best' with save_model set, after every epoch
\* iteration, one ended by the early-stopping break included, the checkpoint file
\* holds the model state and epoch index of the latest epoch whose validation loss
\* is the minimum of all validation losses evaluated so far.
C9_CheckpointIsBestSoFar ==
    (BestMode /\ Len(valid_losses) >= 1) => HoldsBestOf(valid_losses)

\* C9 as amended: that holds after every iteration that is not ended by the
\* early-stopping break; an iteration ended by the break writes no checkpoint, so
\* the file is then the one of the iterations before it (none after one iteration).
C9_CheckpointIsBestUnlessBreak ==
    (BestMode /\ Len(valid_losses) >= 1) =>
        IF tpc # "break" THEN HoldsBestOf(valid_losses)
        ELSE IF Len(valid_losses) = 1 THEN files = {}
        ELSE HoldsBestOf(Front(valid_losses))

\* an iteration that was not ended by the break overwrote the checkpoint on a tie
\* with an earlier minimum, with early stopping switched on
C9_Witness ==
    /\ BestMode /\ tpc = "loop" /\ Truthy(opt.step_when)
    /\ Len(valid_losses) >= 2
    /\ valid_losses[Len(valid_losses)] = MinOf(Front(valid_losses))
    /\ \E f \in files : f.name = NameBest(opt) /\ f.ckpt.epoch = Len(valid_losses) - 1

\* epoch at position i (1-based) sets a new lowest validation loss: it is strictly
\* below the loss of every earlier epoch
NewLowest(vls, i) == \A j \in 1..(i - 1) : vls[i] < vls[j]

\* index of the last epoch before position i that set a new lowest loss, -1 if none
LastNewLowest(vls, i) ==
    IF i = 1 THEN -1
    ELSE (CHOOSE j \in 1..(i - 1) :
             /\ NewLowest(vls, j)
             /\ \A m \in (j + 1)..(i - 1) : ~NewLowest(vls, m)) - 1

\* the stopping rule of the claim for the epoch at position i, with step_when = n
MustStop(vls, i, n) == ~NewLowest(vls, i) /\ (i - 1) - LastNewLowest(vls, i) > n

\* C10: with opt.step_when set to n (a non-zero n here: the code reads 0 as not
\* set) the loop stops at the first epoch whose validation loss is not strictly
\* below the lowest loss of all earlier epochs and for which more than n epochs
\* have passed since the last epoch that set a new lowest loss (counting from -1);
\* so it stops at such an epoch and at no other, and never runs past epoch
\* opt.epoch - 1.
C10_EarlyStopping ==
    (tpc # "idle" /\ Truthy(opt.step_when)) =>
        LET n == opt.step_when[1]
            done == Len(valid_losses)
        IN  /\ tpc = "break" => MustStop(valid_losses, done, n)
            /\ tpc # "break" => \A i \in 1..done : ~MustStop(valid_losses, i, n)
            /\ done <= opt.epoch
            /\ epoch_i <= opt.epoch

====
